---------------------------- MODULE Spec2Model ----------------------------
(***************************************************************************)
(* Typir: lazy type resolution (TypeReference, resolveTypeSelector) on top *)
(* of the type graph and the inference collector.                          *)
(*                                                                         *)
(* All calls of the program are synchronous and re-entrant.  A listener    *)
(* callback may call back into the engine before it returns, so a          *)
(* notification pass (a forEach over a copied listener array) is kept as a *)
(* frame on a call stack: one step of the model delivers one callback,     *)
(* together with whatever that callback does before the next one.          *)
(***************************************************************************)
EXTENDS Integers, Sequences, FiniteSets, TLC

\* ------------------------------------------------------------- bounds ---
MaxListeners == 2   \* longest listener array of one TypeReference
MaxSubs == 2        \* longest listener array of the graph / the inference collector
MaxRules == 1       \* most inference rules registered at a time
MaxNested == 1      \* most re-entrant calls made by listener callbacks in one run
MaxValidationRules == 3   \* longest rule array of the validation collector
MaxArgs == 2        \* most rules handed to one addValidationRules call

\* --------------------------------------------------------- the domain ---
Undefined == 0
InferenceProblems == -1

Types == {1, 2}
Keys == {"a", "b"}
Refs == {1, 2}
ListenerIds == {1, 2}
Initializers == {1}
Functions == {1, 2, 3}
DomainValues == {7}

\* Type.identifier
Identifier(t) == IF t = 1 THEN "a" ELSE "b"

isType(x) == x \in Types

\* TypeSelector, a closed variant
SelNone == [kind |-> "none"]
SelType(t) == [kind |-> "type", type |-> t]
SelId(k) == [kind |-> "id", id |-> k]
SelInit(i) == [kind |-> "init", init |-> i]
SelRef(r) == [kind |-> "ref", ref |-> r]
SelFn(f) == [kind |-> "fn", fn |-> f]
SelValue(v) == [kind |-> "value", value |-> v]

\* what the selector functions return when called
FnReturns(f) ==
    CASE f = 1 -> SelId("a")
      [] f = 2 -> SelFn(1)
      [] OTHER -> SelInit(1)

\* TypeInitializer.getTypeInitial / getTypeFinal
getTypeInitial(i) == 1
getTypeFinal(i) == 2

\* ProblemPrinter.printDomainElement
printDomainElement(v) == 100 + v

\* ---------------------------------------------------------- the state ---
VARIABLES
    host,            \* what the host does in this run: the TypeReferences it creates,
                     \* the listeners it registers, the re-entrant calls of its callbacks
    graph,           \* TypeGraph.nodes: key -> Type or Undefined
    graphListeners,  \* TypeGraph.listeners (the subscribed TypeReferences)
    inferListeners,  \* the inference collector's listeners
    rules,           \* the inference rules: the Type each infers for the domain value
    selector,        \* TypeReference.selector (SelNone: not constructed)
    resolvedType,    \* TypeReference.resolvedType
    listeners,       \* TypeReference.listeners
    deconstructed,   \* history: deconstruct() has been called on the reference
    stack,           \* the notification passes in progress, innermost first
    log,             \* the callbacks delivered, and the calls they made, since the
                     \* running host call began
    nested,          \* the re-entrant calls made by listener callbacks so far
    cur,             \* the running (or last) host call and what it returned
    validationRules, \* DefaultValidationCollector.validationRules
    registered,      \* history: the rules handed to addValidationRules so far, in order
    validating,      \* the running (or last) validate call: its argument, the index of
                     \* its for-of loop, the rules it called and its problems array
    checked          \* the last call of a validation constraint and what it returned

vars == <<host, graph, graphListeners, inferListeners, rules, selector, resolvedType,
          listeners, deconstructed, stack, log, nested, cur, validationRules,
          registered, validating, checked>>

\* the state of the validation services
validation == <<validationRules, registered, validating, checked>>

\* the state but for cur, as one value, so that the statements of a method compose
World ==
    [graph |-> graph, rules |-> rules, stack |-> stack, log |-> log, nested |-> nested,
     gl |-> graphListeners, il |-> inferListeners, sel |-> selector,
     res |-> resolvedType, lis |-> listeners, dec |-> deconstructed]

Commit(w) ==
    /\ graph' = w.graph
    /\ graphListeners' = w.gl
    /\ inferListeners' = w.il
    /\ rules' = w.rules
    /\ selector' = w.sel
    /\ resolvedType' = w.res
    /\ listeners' = w.lis
    /\ deconstructed' = w.dec
    /\ stack' = w.stack
    /\ log' = w.log
    /\ nested' = w.nested
    /\ UNCHANGED validation

\* ------------------------------------------------------------ helpers ---
\* Array.indexOf: the first index holding x, 0 when there is none
IndexOf(s, x) ==
    IF \E i \in 1..Len(s) : s[i] = x
    THEN CHOOSE i \in 1..Len(s) : s[i] = x /\ \A j \in 1..(i - 1) : s[j] # x
    ELSE 0

\* const index = a.indexOf(x); if (index >= 0) a.splice(index, 1)
RemoveFirst(s, x) ==
    LET i == IndexOf(s, x)
    IN IF i = 0 THEN s ELSE SubSeq(s, 1, i - 1) \o SubSeq(s, i + 1, Len(s))

\* a forEach in progress: the array it runs over (a copy taken when it began), the
\* index of the next element, and the argument of the callbacks
Frame(kind, r, all, arg) == [kind |-> kind, ref |-> r, all |-> all, arg |-> arg, idx |-> 1]

\* nothing to do for an empty array
Push(w, f) == IF f.all = <<>> THEN w ELSE [w EXCEPT !.stack = <<f>> \o @]

\* a pass that reads the listener array itself, not a copy of it
PendingLive(w, f) ==
    IF f.kind \in {"onResolved", "onInvalidated"}
    THEN SubSeq(w.lis[f.ref], f.idx, Len(w.lis[f.ref]))
    ELSE SubSeq(f.all, f.idx, Len(f.all))

\* this.listeners.slice().forEach(...): the elements the pass has still to visit
Pending(w, f) == SubSeq(f.all, f.idx, Len(f.all))

\* ----------------------------------- the collaborators' read operations ---
\* TypeGraph.getType(identifier)
GraphGetType(w, k) == w.graph[k]

\* TypeInferenceCollector.inferType(domainElement): a Type, or inference problems
InferType(w, v) == IF w.rules = <<>> THEN InferenceProblems ELSE Head(w.rules)


\* ------------------------------------------------- TypeReference (core) ---
\* a tryToResolve that hands on whatever the inference returns
RECURSIVE tryToResolveUnchecked(_, _)
tryToResolveUnchecked(w, sel) ==
    CASE sel.kind = "type" -> sel.type
      [] sel.kind = "id" -> GraphGetType(w, sel.id)
      [] sel.kind = "init" -> getTypeInitial(sel.init)
      [] sel.kind = "ref" -> w.res[sel.ref]
      [] sel.kind = "fn" -> tryToResolveUnchecked(w, FnReturns(sel.fn))
      [] OTHER -> InferType(w, sel.value)

\* a tryToResolve that looks a Type up in the graph by its identifier
RECURSIVE tryToResolveByIdentifier(_, _)
tryToResolveByIdentifier(w, sel) ==
    CASE sel.kind = "type" -> GraphGetType(w, Identifier(sel.type))
      [] sel.kind = "id" -> GraphGetType(w, sel.id)
      [] sel.kind = "init" -> getTypeInitial(sel.init)
      [] sel.kind = "ref" -> w.res[sel.ref]
      [] sel.kind = "fn" -> tryToResolveByIdentifier(w, FnReturns(sel.fn))
      [] OTHER ->
            LET result == InferType(w, sel.value)
            IN IF isType(result) THEN result ELSE Undefined

\* a tryToResolve that resolves the selector of the other TypeReference anew
RECURSIVE tryToResolveThrough(_, _)
tryToResolveThrough(w, sel) ==
    CASE sel.kind = "type" -> sel.type
      [] sel.kind = "id" -> GraphGetType(w, sel.id)
      [] sel.kind = "init" -> getTypeInitial(sel.init)
      [] sel.kind = "ref" -> tryToResolveThrough(w, w.sel[sel.ref])
      [] sel.kind = "fn" -> tryToResolveThrough(w, FnReturns(sel.fn))
      [] OTHER ->
            LET result == InferType(w, sel.value)
            IN IF isType(result) THEN result ELSE Undefined

RECURSIVE tryToResolve(_, _)
tryToResolve(w, sel) ==
    CASE sel.kind = "type" -> sel.type
      [] sel.kind = "id" -> GraphGetType(w, sel.id)
      [] sel.kind = "init" -> getTypeInitial(sel.init)
      [] sel.kind = "ref" -> w.res[sel.ref]
      [] sel.kind = "fn" -> tryToResolve(w, FnReturns(sel.fn))
      [] OTHER ->
            LET result == InferType(w, sel.value)
            IN IF isType(result) THEN result ELSE Undefined

\* what resolveTypeSelector hands back: a returned value or a thrown Error
Returned(v) == [id |-> "", value |-> v, tag |-> "return", printed |-> 0]
ThrownNoSuchIdentifier(k) == [id |-> k, value |-> Undefined, tag |-> "throw", printed |-> 0]
ThrownNotInferable(p) == [id |-> "", value |-> Undefined, tag |-> "throw", printed |-> p]

\* a resolveTypeSelector that returns what the graph returns for an identifier
RECURSIVE resolveTypeSelectorLenient(_, _)
resolveTypeSelectorLenient(w, sel) ==
    CASE sel.kind = "type" -> Returned(sel.type)
      [] sel.kind = "id" -> Returned(GraphGetType(w, sel.id))
      [] sel.kind = "init" -> Returned(getTypeFinal(sel.init))
      [] sel.kind = "ref" -> Returned(w.res[sel.ref])
      [] sel.kind = "fn" -> resolveTypeSelectorLenient(w, FnReturns(sel.fn))
      [] OTHER ->
            LET result == InferType(w, sel.value)
            IN IF isType(result) THEN Returned(result)
               ELSE ThrownNotInferable(printDomainElement(sel.value))

\* a resolveTypeSelector that takes the initial Type of a TypeInitializer
RECURSIVE resolveTypeSelectorInitial(_, _)
resolveTypeSelectorInitial(w, sel) ==
    CASE sel.kind = "type" -> Returned(sel.type)
      [] sel.kind = "id" ->
            LET result == GraphGetType(w, sel.id)
            IN IF result # Undefined THEN Returned(result)
               ELSE ThrownNoSuchIdentifier(sel.id)
      [] sel.kind = "init" -> Returned(getTypeInitial(sel.init))
      [] sel.kind = "ref" -> Returned(w.res[sel.ref])
      [] sel.kind = "fn" -> resolveTypeSelectorInitial(w, FnReturns(sel.fn))
      [] OTHER ->
            LET result == InferType(w, sel.value)
            IN IF isType(result) THEN Returned(result)
               ELSE ThrownNotInferable(printDomainElement(sel.value))

\* a resolveTypeSelector that resolves the selector of a TypeReference anew
RECURSIVE resolveTypeSelectorThrough(_, _)
resolveTypeSelectorThrough(w, sel) ==
    CASE sel.kind = "type" -> Returned(sel.type)
      [] sel.kind = "id" ->
            LET result == GraphGetType(w, sel.id)
            IN IF result # Undefined THEN Returned(result)
               ELSE ThrownNoSuchIdentifier(sel.id)
      [] sel.kind = "init" -> Returned(getTypeFinal(sel.init))
      [] sel.kind = "ref" -> resolveTypeSelectorThrough(w, w.sel[sel.ref])
      [] sel.kind = "fn" -> resolveTypeSelectorThrough(w, FnReturns(sel.fn))
      [] OTHER ->
            LET result == InferType(w, sel.value)
            IN IF isType(result) THEN Returned(result)
               ELSE ThrownNotInferable(printDomainElement(sel.value))

RECURSIVE resolveTypeSelector(_, _)
resolveTypeSelector(w, sel) ==
    CASE sel.kind = "type" -> Returned(sel.type)
      [] sel.kind = "id" ->
            LET result == GraphGetType(w, sel.id)
            IN IF result # Undefined THEN Returned(result)
               ELSE ThrownNoSuchIdentifier(sel.id)
      [] sel.kind = "init" -> Returned(getTypeFinal(sel.init))
      [] sel.kind = "ref" -> Returned(w.res[sel.ref])
      [] sel.kind = "fn" -> resolveTypeSelector(w, FnReturns(sel.fn))
      [] OTHER ->
            LET result == InferType(w, sel.value)
            IN IF isType(result) THEN Returned(result)
               ELSE ThrownNotInferable(printDomainElement(sel.value))

\* a stopResolving that leaves the inference collector alone
stopResolvingGraphOnly(w, r) == [w EXCEPT !.gl = RemoveFirst(@, r)]

\* graph.removeListener(this); inference.removeListener(this)
stopResolving(w, r) ==
    [w EXCEPT !.gl = RemoveFirst(@, r), !.il = RemoveFirst(@, r)]

\* a resolve that tries again although a Type is held
resolveAgain(w, r) ==
    LET t == tryToResolve(w, w.sel[r])
    IN IF t # Undefined
       THEN Push(stopResolving([w EXCEPT !.res[r] = t], r),
                 Frame("onResolved", r, w.lis[r], t))
       ELSE w

\* a resolve that calls the listeners last to first
resolveBackwards(w, r) ==
    IF w.res[r] # Undefined
    THEN w
    ELSE LET t == tryToResolve(w, w.sel[r])
         IN IF t # Undefined
            THEN Push(stopResolving([w EXCEPT !.res[r] = t], r),
                      Frame("onResolved", r,
                            [i \in 1..Len(w.lis[r]) |-> w.lis[r][Len(w.lis[r]) + 1 - i]], t))
            ELSE w

resolve(w, r) ==
    IF w.res[r] # Undefined
    THEN w
    ELSE LET t == tryToResolve(w, w.sel[r])
         IN IF t # Undefined
            THEN Push(stopResolving([w EXCEPT !.res[r] = t], r),
                      Frame("onResolved", r, w.lis[r], t))
            ELSE w

\* a startResolving that keeps the Type resolved before
startResolvingKeepSlot(w, r) ==
    resolve([w EXCEPT !.gl = Append(@, r), !.il = Append(@, r)], r)

startResolving(w, r) ==
    resolve([w EXCEPT !.res[r] = Undefined,
                      !.gl = Append(@, r),
                      !.il = Append(@, r)], r)

construct(w, r, sel) == startResolving([w EXCEPT !.sel[r] = sel], r)

deconstruct(w, r) ==
    [stopResolving(w, r) EXCEPT !.lis[r] = <<>>, !.dec[r] = TRUE]

\* an addListener that never tells the new listener the current state
addListenerSilent(w, r, l, informAboutCurrentState) ==
    [w EXCEPT !.lis[r] = Append(@, l)]

addListener(w, r, l, informAboutCurrentState) ==
    LET w1 == [w EXCEPT !.lis[r] = Append(@, l)]
    IN IF informAboutCurrentState
       THEN IF w1.res[r] # Undefined
            THEN Push(w1, Frame("informResolved", r, <<l>>, w1.res[r]))
            ELSE Push(w1, Frame("informInvalidated", r, <<l>>, Undefined))
       ELSE w1

\* a removeListener that removes every entry identical to the listener
removeListenerEvery(w, r, l) ==
    [w EXCEPT !.lis[r] = SelectSeq(@, LAMBDA other : other # l)]

removeListener(w, r, l) == [w EXCEPT !.lis[r] = RemoveFirst(@, l)]

\* an addedType that does not try again
addedTypeIgnored(w, r) == w

addedType(w, r) == resolve(w, r)

\* a removedType that does not look at the Type removed
removedTypeAny(w, r, t) ==
    IF w.lis[r] = <<>>
    THEN startResolving(w, r)
    ELSE Push(w, Frame("onInvalidated", r, w.lis[r], Undefined))

\* the listeners are called first (an "onInvalidated" frame); startResolving
\* follows once the last of them has returned
removedType(w, r, t) ==
    IF t = w.res[r]
    THEN IF w.lis[r] = <<>>
         THEN startResolving(w, r)
         ELSE Push(w, Frame("onInvalidated", r, w.lis[r], Undefined))
    ELSE w

\* only types are relevant
addedEdge(w, r) == w

removedEdge(w, r) == w

addedInferenceRule(w, r) == resolve(w, r)

\* empty, since removed inference rules don't help to resolve a type
removedInferenceRule(w, r) == w

\* --------------------------------------------- the collaborators' events ---
\* TypeGraph.addNode: a second Type under a taken identifier is refused
addNode(w, t) ==
    IF w.graph[Identifier(t)] # Undefined
    THEN w
    ELSE Push([w EXCEPT !.graph[Identifier(t)] = t], Frame("addedType", 0, w.gl, t))

\* TypeGraph.removeNode
removeNode(w, t) ==
    IF w.graph[Identifier(t)] # t
    THEN w
    ELSE Push([w EXCEPT !.graph[Identifier(t)] = Undefined],
              Frame("removedType", 0, w.gl, t))

\* TypeInferenceCollector.addInferenceRule
addInferenceRule(w, t) ==
    Push([w EXCEPT !.rules = Append(@, t)], Frame("addedInferenceRule", 0, w.il, t))

\* TypeInferenceCollector.removeInferenceRule; removedInferenceRule is empty
removeInferenceRule(w, t) == [w EXCEPT !.rules = RemoveFirst(@, t)]

\* ---------------------------------------------------------- the calls ---
\* one call into the engine, made by the host or by a listener callback
MkCall(op, r, l, t, inform, sel) ==
    [type |-> t, ref |-> r, sel |-> sel, op |-> op, inform |-> inform, listener |-> l]

\* the selectors a TypeReference is constructed with
RefSelectors(r) ==
    IF r = 1
    THEN {SelId("a"), SelValue(7)}
    ELSE {SelRef(1), SelFn(2)}

\* the selectors handed to tryToResolve / resolveTypeSelector by the host
AllSelectors ==
    {SelType(t) : t \in Types} \cup {SelId(k) : k \in Keys}
        \cup {SelInit(i) : i \in Initializers} \cup {SelRef(r) : r \in Refs}
        \cup {SelFn(f) : f \in Functions} \cup {SelValue(v) : v \in DomainValues}

Constructed(w, r) == w.sel[r].kind # "none"

SelectorUsable(w, sel) == sel.kind = "ref" => Constructed(w, sel.ref)

CanCall(w, c) ==
    CASE c.op = "construct" -> ~Constructed(w, c.ref) /\ SelectorUsable(w, c.sel)
      [] c.op = "addListener" -> Constructed(w, c.ref) /\ Len(w.lis[c.ref]) < MaxListeners
      [] c.op \in {"deconstruct", "removeListener", "addedType", "removedType",
                   "addedEdge", "removedEdge", "addedInferenceRule",
                   "removedInferenceRule"} -> Constructed(w, c.ref)
      [] c.op = "addInferenceRule" -> Len(w.rules) < MaxRules
      [] c.op = "removeInferenceRule" -> \E i \in 1..Len(w.rules) : w.rules[i] = c.type
      [] c.op \in {"tryToResolve", "resolveTypeSelector"} -> SelectorUsable(w, c.sel)
      [] OTHER -> TRUE

Apply(w, c) ==
    CASE c.op = "construct" -> construct(w, c.ref, c.sel)
      [] c.op = "deconstruct" -> deconstruct(w, c.ref)
      [] c.op = "addListener" -> addListener(w, c.ref, c.listener, c.inform)
      [] c.op = "removeListener" -> removeListener(w, c.ref, c.listener)
      [] c.op = "addedType" -> addedType(w, c.ref)
      [] c.op = "removedType" -> removedType(w, c.ref, c.type)
      [] c.op = "addedEdge" -> addedEdge(w, c.ref)
      [] c.op = "removedEdge" -> removedEdge(w, c.ref)
      [] c.op = "addedInferenceRule" -> addedInferenceRule(w, c.ref)
      [] c.op = "removedInferenceRule" -> removedInferenceRule(w, c.ref)
      [] c.op = "addNode" -> addNode(w, c.type)
      [] c.op = "removeNode" -> removeNode(w, c.type)
      [] c.op = "addInferenceRule" -> addInferenceRule(w, c.type)
      [] c.op = "removeInferenceRule" -> removeInferenceRule(w, c.type)
      [] OTHER -> w

Result(w, c) ==
    CASE c.op = "tryToResolve" -> Returned(tryToResolve(w, c.sel))
      [] c.op = "resolveTypeSelector" -> resolveTypeSelector(w, c.sel)
      [] OTHER -> Returned(Undefined)

\* the model's caps on the collaborators' listener arrays
Capped(w) == Len(w.gl) <= MaxSubs /\ Len(w.il) <= MaxSubs

NoCall == MkCall("none", 0, 0, 0, FALSE, SelNone)

\* the state a host call began in, as far as the properties below look back at it
PreOf(w) == [graph |-> w.graph, res |-> w.res, lis |-> w.lis]

\* a call made by the host: no call is running
Host(c) ==
    /\ stack = <<>>
    /\ CanCall(World, c)
    /\ LET w0 == [World EXCEPT !.log = <<>>]
           w1 == Apply(w0, c)
       IN /\ Capped(w1)
          /\ Commit(w1)
          /\ UNCHANGED host
          /\ cur' = [call |-> c, ret |-> Result(w0, c), pre |-> PreOf(w0)]

\* what a constraint hands back: an array of ValidationProblems, or the TypeError
\* of calling something that is not a function
Problems(ps) == [tag |-> "return", problems |-> ps]
ThrownNotAFunction == [tag |-> "throw", problems |-> <<>>]

\* one call of a constraint
MkCheck(entry, domainNode, expected, strategy, negated, m) ==
    [entry |-> entry, domainNode |-> domainNode, expected |-> expected,
     strategy |-> strategy, negated |-> negated, m |-> m]

\* no constraint called yet
NoCheck == [call |-> MkCheck("none", Undefined, Undefined, "EQUAL_TYPE", FALSE, "undefined"),
            ret |-> Problems(<<>>)]

\* no validate call yet
NotValidating ==
    [idx |-> 1, problems |-> <<>>, active |-> FALSE, domainElement |-> Undefined,
     start |-> <<>>, ran |-> <<>>]

InitWorld ==
    /\ graph = [k \in Keys |-> Undefined]
    /\ graphListeners = <<>>
    /\ inferListeners = <<>>
    /\ rules = <<>>
    /\ selector = [r \in Refs |-> SelNone]
    /\ resolvedType = [r \in Refs |-> Undefined]
    /\ listeners = [r \in Refs |-> <<>>]
    /\ deconstructed = [r \in Refs |-> FALSE]
    /\ stack = <<>>
    /\ log = <<>>
    /\ nested = 0
    /\ cur = [call |-> NoCall, ret |-> Returned(Undefined), pre |-> PreOf(World)]
    /\ validationRules = <<>>
    /\ registered = <<>>
    /\ validating = NotValidating
    /\ checked = NoCheck

\* one TypeReference with listeners and re-entrant callbacks
Init ==
    /\ host = [listeners |-> ListenerIds, refs |-> {1}, reentrant |-> MaxNested]
    /\ InitWorld

\* two TypeReferences, one listener, callbacks that only return, and the selector
\* resolution called in every state
InitSelect ==
    /\ host = [listeners |-> {1}, refs |-> Refs, reentrant |-> 0]
    /\ InitWorld

CallConstruct ==
    \E r \in host.refs : \E sel \in RefSelectors(r) :
        Host(MkCall("construct", r, 0, 0, FALSE, sel))

CallDeconstruct == \E r \in host.refs : Host(MkCall("deconstruct", r, 0, 0, FALSE, SelNone))

CallAddListener ==
    \E r \in host.refs, l \in host.listeners, inform \in BOOLEAN :
        Host(MkCall("addListener", r, l, 0, inform, SelNone))

CallRemoveListener ==
    \E r \in host.refs, l \in host.listeners : Host(MkCall("removeListener", r, l, 0, FALSE, SelNone))

CallAddedType ==
    \E r \in host.refs, t \in Types : Host(MkCall("addedType", r, 0, t, FALSE, SelNone))

CallRemovedType ==
    \E r \in host.refs, t \in Types : Host(MkCall("removedType", r, 0, t, FALSE, SelNone))

CallAddedEdge == \E r \in host.refs : Host(MkCall("addedEdge", r, 0, 0, FALSE, SelNone))

CallRemovedEdge == \E r \in host.refs : Host(MkCall("removedEdge", r, 0, 0, FALSE, SelNone))

CallAddedInferenceRule ==
    \E r \in host.refs : Host(MkCall("addedInferenceRule", r, 0, 0, FALSE, SelNone))

CallRemovedInferenceRule ==
    \E r \in host.refs : Host(MkCall("removedInferenceRule", r, 0, 0, FALSE, SelNone))

CallAddNode == \E t \in Types : Host(MkCall("addNode", 0, 0, t, FALSE, SelNone))

CallRemoveNode == \E t \in Types : Host(MkCall("removeNode", 0, 0, t, FALSE, SelNone))

CallAddInferenceRule ==
    \E t \in Types : Host(MkCall("addInferenceRule", 0, 0, t, FALSE, SelNone))

CallRemoveInferenceRule ==
    \E t \in Types : Host(MkCall("removeInferenceRule", 0, 0, t, FALSE, SelNone))

CallTryToResolve ==
    \E sel \in AllSelectors : Host(MkCall("tryToResolve", 0, 0, 0, FALSE, sel))

CallResolveTypeSelector ==
    \E sel \in AllSelectors : Host(MkCall("resolveTypeSelector", 0, 0, 0, FALSE, sel))

\* ------------------------------------------- the passes in progress ---
\* what a listener callback may call before it returns
NestedCalls ==
    {MkCall("addListener", r, l, 0, FALSE, SelNone) : r \in host.refs, l \in host.listeners}
        \cup {MkCall("removeListener", r, l, 0, FALSE, SelNone) : r \in host.refs, l \in host.listeners}
        \cup {MkCall("deconstruct", r, 0, 0, FALSE, SelNone) : r \in host.refs}
        \cup {MkCall("addedType", r, 0, t, FALSE, SelNone) : r \in host.refs, t \in Types}
        \cup {MkCall("removedType", r, 0, t, FALSE, SelNone) : r \in host.refs, t \in Types}

\* the passes that call listeners of a TypeReference: the two of resolve and
\* removedType, and the single call of addListener(l, true)
CallbackKinds == {"onResolved", "onInvalidated", "informResolved", "informInvalidated"}

LogCallback(l, event, r, t) == [type |-> t, ref |-> r, listener |-> l, event |-> event]

\* the pass on top of the stack with its first element taken; a finished pass is
\* dropped, but for an "onInvalidated" pass, which startResolving still follows
Advance(w) ==
    LET top == [Head(w.stack) EXCEPT !.idx = @ + 1]
    IN IF Pending(w, top) = <<>> /\ top.kind # "onInvalidated"
       THEN [w EXCEPT !.stack = Tail(@)]
       ELSE [w EXCEPT !.stack = <<top>> \o Tail(@)]

\* listener.onTypeReferenceResolved(this, resolvedType) or
\* listener.onTypeReferenceInvalidated(this, this.resolvedType!): the next listener
\* of the pass is called, and the callback may call back into the engine
DeliverCallback ==
    /\ stack # <<>>
    /\ Head(stack).kind \in CallbackKinds
    /\ Pending(World, Head(stack)) # <<>>
    /\ LET top == Head(stack)
           l == Head(Pending(World, top))
           event == IF top.kind \in {"onResolved", "informResolved"}
                    THEN "onResolved" ELSE "onInvalidated"
           arg == IF top.kind = "onInvalidated" THEN resolvedType[top.ref] ELSE top.arg
           w1 == [Advance(World) EXCEPT !.log = Append(@, LogCallback(l, event, top.ref, arg))]
       IN \/ Commit(w1)
          \/ \E c \in NestedCalls :
                /\ nested < host.reentrant
                /\ CanCall(w1, c)
                /\ LET w2 == Apply([w1 EXCEPT !.nested = @ + 1,
                                              !.log = Append(@, LogCallback(c.listener, c.op, c.ref, c.type))], c)
                   IN Capped(w2) /\ Commit(w2)
    /\ UNCHANGED <<cur, host>>

\* removedType, after its listeners: this.startResolving()
FinishRemovedType ==
    /\ stack # <<>>
    /\ Head(stack).kind = "onInvalidated"
    /\ Pending(World, Head(stack)) = <<>>
    /\ LET w1 == startResolving([World EXCEPT !.stack = Tail(stack)], Head(stack).ref)
       IN Capped(w1) /\ Commit(w1)
    /\ UNCHANGED <<cur, host>>

\* the graph calls listener.addedType(type, key) on its next listener
DeliverAddedType ==
    /\ stack # <<>>
    /\ Head(stack).kind = "addedType"
    /\ LET w1 == addedType(Advance(World), Head(Pending(World, Head(stack))))
       IN Capped(w1) /\ Commit(w1)
    /\ UNCHANGED <<cur, host>>

\* the graph calls listener.removedType(type, key) on its next listener
DeliverRemovedType ==
    /\ stack # <<>>
    /\ Head(stack).kind = "removedType"
    /\ LET w1 == removedType(Advance(World), Head(Pending(World, Head(stack))), Head(stack).arg)
       IN Capped(w1) /\ Commit(w1)
    /\ UNCHANGED <<cur, host>>

\* the inference collector calls listener.addedInferenceRule(rule) on its next listener
DeliverAddedInferenceRule ==
    /\ stack # <<>>
    /\ Head(stack).kind = "addedInferenceRule"
    /\ LET w1 == addedInferenceRule(Advance(World), Head(Pending(World, Head(stack))))
       IN Capped(w1) /\ Commit(w1)
    /\ UNCHANGED <<cur, host>>

Next ==
    \/ CallConstruct
    \/ CallDeconstruct
    \/ CallAddListener
    \/ CallRemoveListener
    \/ CallAddedType
    \/ CallRemovedType
    \/ CallAddedInferenceRule
    \/ CallAddedEdge
    \/ CallRemovedEdge
    \/ CallRemovedInferenceRule
    \/ CallAddNode
    \/ CallRemoveNode
    \/ CallAddInferenceRule
    \/ CallRemoveInferenceRule
    \/ DeliverCallback
    \/ FinishRemovedType
    \/ DeliverAddedType
    \/ DeliverRemovedType
    \/ DeliverAddedInferenceRule

Spec == Init /\ [][Next]_vars

NextSelect ==
    \/ CallConstruct
    \/ CallAddListener
    \/ CallAddNode
    \/ CallRemoveNode
    \/ CallAddInferenceRule
    \/ CallRemoveInferenceRule
    \/ CallTryToResolve
    \/ CallResolveTypeSelector
    \/ DeliverCallback
    \/ DeliverAddedType
    \/ DeliverRemovedType
    \/ DeliverAddedInferenceRule

SpecSelect == InitSelect /\ [][NextSelect]_vars

\* ------------------------------------------- validation constraints ---
\* TypeCheckStrategy, as far as the three named checks use it
Strategies == {"EQUAL_TYPE", "ASSIGNABLE_TYPE"}

\* the TypirProblem a strategy returns for two Types that are not related
TypeConflict(actual, expected) == 10 * actual + expected

\* createTypeCheckStrategy(strategy, typir)(actual, expected): undefined when the
\* two Types are related, the conflict otherwise; Type 1 is assignable to Type 2
createTypeCheckStrategy(strategy, actual, expected) ==
    IF strategy = "EQUAL_TYPE"
    THEN IF actual = expected THEN Undefined ELSE TypeConflict(actual, expected)
    ELSE IF actual = expected \/ (actual = 1 /\ expected = 2)
         THEN Undefined
         ELSE TypeConflict(actual, expected)

\* TypePrinter.printType
printType(t) == 200 + t

annotateType(t) ==
    [type |-> t, name |-> Identifier(t), userRepresentation |-> printType(t)]

\* what a caller hands over as message: nothing, a string (as the validation rules
\* of the lox example do), or a ValidationMessageProvider that fills in no field,
\* every field, or the message only
MessageArguments == {"undefined", "string", "empty", "full", "partial"}

isFunction(m) == m \notin {"undefined", "string"}

\* the domain element and the array index the "full" provider points at
OtherElement == 9
SomeIndex == 3

\* message(actual, expected): a Partial<ValidationMessageDetails>, each field
\* <<>> when left out and <<v>> when set
ValidationMessageDetails(m, actual, expected) ==
    CASE m = "full" ->
            [domainElement |-> <<OtherElement>>,
             message |-> << <<"custom", actual.name, expected.name>> >>,
             domainProperty |-> <<"value">>,
             domainIndex |-> <<SomeIndex>>,
             severity |-> <<"warning">>]
      [] m = "partial" ->
            [domainElement |-> <<>>,
             message |-> << <<"custom", actual.name, expected.name>> >>,
             domainProperty |-> <<>>,
             domainIndex |-> <<>>,
             severity |-> <<>>]
      [] OTHER ->
            [domainElement |-> <<>>,
             message |-> <<>>,
             domainProperty |-> <<>>,
             domainIndex |-> <<>>,
             severity |-> <<>>]

\* x ?? y
OrElse(x, y) == IF x = <<>> THEN y ELSE x[1]

\* `'${actualType.identifier}' is ${negated ? '' : 'not '}related to
\* '${expectedType.identifier}' regarding ${strategy}.`
DefaultMessage(actualType, expectedType, strategy, negated) ==
    <<Identifier(actualType), IF negated THEN "is related to" ELSE "is not related to",
      Identifier(expectedType), strategy>>

\* const details = message(...); return [{ $problem: ValidationProblem, ... }]
ValidationProblem(domainNode, actualType, expectedType, strategy, negated, m, subProblems) ==
    IF ~isFunction(m)
    THEN ThrownNotAFunction
    ELSE LET details == ValidationMessageDetails(m, annotateType(actualType),
                                                 annotateType(expectedType))
         IN Problems(<<[domainElement |-> OrElse(details.domainElement, domainNode),
                        message |-> OrElse(details.message,
                                          DefaultMessage(actualType, expectedType,
                                                         strategy, negated)),
                        domainProperty |-> details.domainProperty,
                        domainIndex |-> details.domainIndex,
                        severity |-> OrElse(details.severity, "error"),
                        subProblems |-> subProblems]>>)

\* an ensureNodeRelatedWithType that goes on with an undefined side
ensureNodeRelatedWithTypeUnguarded(w, domainNode, expected, strategy, negated, m) ==
    LET actualType == IF isType(domainNode) THEN domainNode
                      ELSE InferType(w, domainNode)
        expectedType == IF isType(expected) THEN expected
                        ELSE InferType(w, expected)
    IN IF isType(actualType) /\ isType(expectedType)
       THEN LET comparisonResult ==
                    createTypeCheckStrategy(strategy, actualType, expectedType)
            IN IF comparisonResult # Undefined
               THEN IF negated
                    THEN Problems(<<>>)
                    ELSE ValidationProblem(domainNode, actualType, expectedType,
                                           strategy, negated, m, <<comparisonResult>>)
               ELSE IF negated
                    THEN ValidationProblem(domainNode, actualType, expectedType,
                                           strategy, negated, m, <<>>)
                    ELSE Problems(<<>>)
       ELSE Problems(<<>>)

\* an ensureNodeRelatedWithType that reports every mismatch, negated or not
ensureNodeRelatedWithTypeAnyMismatch(w, domainNode, expected, strategy, negated, m) ==
    IF domainNode # Undefined /\ expected # Undefined
    THEN LET actualType == IF isType(domainNode) THEN domainNode
                           ELSE InferType(w, domainNode)
             expectedType == IF isType(expected) THEN expected
                             ELSE InferType(w, expected)
         IN IF isType(actualType) /\ isType(expectedType)
            THEN LET comparisonResult ==
                         createTypeCheckStrategy(strategy, actualType, expectedType)
                 IN IF comparisonResult # Undefined
                    THEN ValidationProblem(domainNode, actualType, expectedType,
                                           strategy, negated, m, <<comparisonResult>>)
                    ELSE IF negated
                         THEN ValidationProblem(domainNode, actualType, expectedType,
                                                strategy, negated, m, <<>>)
                         ELSE Problems(<<>>)
            ELSE Problems(<<>>)
    ELSE Problems(<<>>)

ensureNodeRelatedWithType(w, domainNode, expected, strategy, negated, m) ==
    IF domainNode # Undefined /\ expected # Undefined
    THEN LET actualType == IF isType(domainNode) THEN domainNode
                           ELSE InferType(w, domainNode)
             expectedType == IF isType(expected) THEN expected
                             ELSE InferType(w, expected)
         IN IF isType(actualType) /\ isType(expectedType)
            THEN LET comparisonResult ==
                         createTypeCheckStrategy(strategy, actualType, expectedType)
                 IN IF comparisonResult # Undefined
                    THEN IF negated
                         THEN Problems(<<>>)
                         ELSE ValidationProblem(domainNode, actualType, expectedType,
                                                strategy, negated, m, <<comparisonResult>>)
                    ELSE IF negated
                         THEN ValidationProblem(domainNode, actualType, expectedType,
                                                strategy, negated, m, <<>>)
                         ELSE Problems(<<>>)
            ELSE Problems(<<>>)
    ELSE Problems(<<>>)

ensureNodeIsAssignable(w, sourceNode, expected, m) ==
    ensureNodeRelatedWithType(w, sourceNode, expected, "ASSIGNABLE_TYPE", FALSE, m)

ensureNodeIsEquals(w, sourceNode, expected, m) ==
    ensureNodeRelatedWithType(w, sourceNode, expected, "EQUAL_TYPE", FALSE, m)

\* an ensureNodeHasNotType that is not negated
ensureNodeHasNotTypeNotNegated(w, sourceNode, notExpected, m) ==
    ensureNodeRelatedWithType(w, sourceNode, notExpected, "EQUAL_TYPE", FALSE, m)

ensureNodeHasNotType(w, sourceNode, notExpected, m) ==
    ensureNodeRelatedWithType(w, sourceNode, notExpected, "EQUAL_TYPE", TRUE, m)

\* what is handed to a constraint as domain node or as expected side
Nodes == {Undefined} \cup Types \cup DomainValues

RunCheck(w, c) ==
    CASE c.entry = "ensureNodeIsAssignable" ->
            ensureNodeIsAssignable(w, c.domainNode, c.expected, c.m)
      [] c.entry = "ensureNodeIsEquals" ->
            ensureNodeIsEquals(w, c.domainNode, c.expected, c.m)
      [] c.entry = "ensureNodeHasNotType" ->
            ensureNodeHasNotType(w, c.domainNode, c.expected, c.m)
      [] c.entry = "ensureNodeRelatedWithType" ->
            ensureNodeRelatedWithType(w, c.domainNode, c.expected, c.strategy,
                                      c.negated, c.m)
      [] OTHER -> Problems(<<>>)

\* ---------------------------------------------- validation collector ---
\* the ValidationRules of the host
RuleIds == {1, 2, 3}

\* a ValidationRule that hands itself to addValidationRules whenever it runs, and
\* returns no problem
SelfRegistering == 4

\* the rules the host's rule i hands to addValidationRules while it runs
RuleRegisters(i) ==
    IF i = 3 THEN <<1>> ELSE IF i = SelfRegistering THEN <<SelfRegistering>> ELSE <<>>

\* rule(domainElement, typir): the ValidationProblems rule i returns
RuleProblems(i, w, domainElement) ==
    CASE i = 1 -> ensureNodeIsAssignable(w, domainElement, 1, "empty").problems
      [] i = 2 -> ensureNodeHasNotType(w, domainElement, 2, "full").problems
                      \o ensureNodeIsEquals(w, domainElement, 1, "partial").problems
      [] OTHER -> <<>>

\* a push that puts the new elements in front
pushFront(array, items) == items \o array

\* array.push(...items)
push(array, items) == array \o items

\* an addValidationRules that leaves out the rules it already has
addValidationRulesNew(list, args) ==
    push(list, SelectSeq(args, LAMBDA rule : \A i \in 1..Len(list) : list[i] # rule))

\* this.validationRules.push(...rules)
addValidationRules(list, args) == push(list, args)

\* the arguments of one addValidationRules call
RuleArguments ==
    {<<>>} \cup UNION {[1..n -> RuleIds] : n \in 1..MaxArgs}

\* the array stays within its bound also after the rules in it have registered theirs
Room(list) ==
    Len(list) + Cardinality({i \in 1..Len(list) : RuleRegisters(list[i]) # <<>>})
        <= MaxValidationRules

\* the variables of the type graph, the inference and the TypeReferences
resolution ==
    <<host, graph, graphListeners, inferListeners, rules, selector, resolvedType,
      listeners, deconstructed, stack, log, nested, cur>>

CallEnsureNodeIsAssignable ==
    \E domainNode \in Nodes, expected \in Nodes, m \in MessageArguments :
        LET c == MkCheck("ensureNodeIsAssignable", domainNode, expected,
                         "ASSIGNABLE_TYPE", FALSE, m)
        IN /\ checked' = [call |-> c, ret |-> RunCheck(World, c)]
           /\ UNCHANGED <<resolution, validationRules, registered, validating>>

CallEnsureNodeIsEquals ==
    \E domainNode \in Nodes, expected \in Nodes, m \in MessageArguments :
        LET c == MkCheck("ensureNodeIsEquals", domainNode, expected,
                         "EQUAL_TYPE", FALSE, m)
        IN /\ checked' = [call |-> c, ret |-> RunCheck(World, c)]
           /\ UNCHANGED <<resolution, validationRules, registered, validating>>

CallEnsureNodeHasNotType ==
    \E domainNode \in Nodes, expected \in Nodes, m \in MessageArguments :
        LET c == MkCheck("ensureNodeHasNotType", domainNode, expected,
                         "EQUAL_TYPE", TRUE, m)
        IN /\ checked' = [call |-> c, ret |-> RunCheck(World, c)]
           /\ UNCHANGED <<resolution, validationRules, registered, validating>>

CallEnsureNodeRelatedWithType ==
    \E domainNode \in Nodes, expected \in Nodes, strategy \in Strategies,
       negated \in BOOLEAN, m \in MessageArguments :
        LET c == MkCheck("ensureNodeRelatedWithType", domainNode, expected,
                         strategy, negated, m)
        IN /\ checked' = [call |-> c, ret |-> RunCheck(World, c)]
           /\ UNCHANGED <<resolution, validationRules, registered, validating>>

\* addValidationRules(...rules), called by the host
CallAddValidationRules ==
    \E args \in RuleArguments :
        /\ ~validating.active
        /\ Room(validationRules \o args)
        /\ validationRules' = addValidationRules(validationRules, args)
        /\ registered' = registered \o args
        /\ validating' = NotValidating
        /\ UNCHANGED <<resolution, checked>>

\* validate(domainElement): const problems = []; the for-of loop begins
CallValidate ==
    \E domainElement \in Types \cup DomainValues :
        /\ ~validating.active
        /\ Room(validationRules)
        /\ validating' = [idx |-> 1, problems |-> <<>>,
                          active |-> validationRules # <<>>,
                          domainElement |-> domainElement,
                          start |-> validationRules, ran |-> <<>>]
        /\ UNCHANGED <<resolution, validationRules, registered, checked>>

\* a loop over the rules that validate found when it was called
RunRuleSnapshot ==
    /\ validating.active
    /\ LET rule == validating.start[validating.idx]
           list == addValidationRules(validationRules, RuleRegisters(rule))
       IN /\ Len(list) <= MaxValidationRules
          /\ validationRules' = list
          /\ registered' = registered \o RuleRegisters(rule)
          /\ validating' =
                 [validating EXCEPT
                      !.active = validating.idx < Len(validating.start),
                      !.idx = @ + 1,
                      !.ran = Append(@, rule),
                      !.problems = push(@, RuleProblems(rule, World,
                                                        validating.domainElement))]
    /\ UNCHANGED <<resolution, checked>>

\* problems.push(...rule(domainElement, this.typir)) for the next rule of the
\* array, as the array is now; the rule may register rules before it returns
RunRule ==
    /\ validating.active
    /\ LET rule == validationRules[validating.idx]
           list == addValidationRules(validationRules, RuleRegisters(rule))
       IN /\ Len(list) <= MaxValidationRules
          /\ validationRules' = list
          /\ registered' = registered \o RuleRegisters(rule)
          /\ validating' =
                 [validating EXCEPT
                      !.active = validating.idx < Len(list),
                      !.idx = @ + 1,
                      !.ran = Append(@, rule),
                      !.problems = push(@, RuleProblems(rule, World,
                                                        validating.domainElement))]
    /\ UNCHANGED <<resolution, checked>>

\* the inference rules change between two validate calls
AddInferenceRuleForValidation == ~validating.active /\ CallAddInferenceRule

RemoveInferenceRuleForValidation == ~validating.active /\ CallRemoveInferenceRule

\* no TypeReference: the constraints, called in every state of the inference
InitConstraints ==
    /\ host = [listeners |-> {}, refs |-> {}, reentrant |-> 0]
    /\ InitWorld

NextConstraints ==
    \/ CallAddInferenceRule
    \/ CallRemoveInferenceRule
    \/ CallEnsureNodeIsAssignable
    \/ CallEnsureNodeIsEquals
    \/ CallEnsureNodeHasNotType
    \/ CallEnsureNodeRelatedWithType

SpecConstraints == InitConstraints /\ [][NextConstraints]_vars

NextCollector ==
    \/ AddInferenceRuleForValidation
    \/ RemoveInferenceRuleForValidation
    \/ CallAddValidationRules
    \/ CallValidate
    \/ RunRule

SpecCollector == InitConstraints /\ [][NextCollector]_vars

\* addValidationRules(rule), called by the host with the rule that registers itself
CallAddSelfRegistering ==
    /\ ~validating.active
    /\ Room(validationRules \o <<SelfRegistering>>)
    /\ validationRules' = addValidationRules(validationRules, <<SelfRegistering>>)
    /\ registered' = registered \o <<SelfRegistering>>
    /\ validating' = NotValidating
    /\ UNCHANGED <<resolution, checked>>

NextRegistering ==
    \/ AddInferenceRuleForValidation
    \/ RemoveInferenceRuleForValidation
    \/ CallAddValidationRules
    \/ CallAddSelfRegistering
    \/ CallValidate
    \/ RunRule

\* the collector with rules of every kind; validate is synchronous, so its loop
\* goes on whenever it can
SpecRegistering ==
    InitConstraints /\ [][NextRegistering]_vars /\ WF_vars(RunRule)

\* ------------------------------------------------- reading the state ---
\* no call is running
Idle == stack = <<>>

IsConstructed(r) == selector[r].kind # "none"

InList(s, x) == \E i \in 1..Len(s) : s[i] = x

SubscribedToGraph(r) == InList(graphListeners, r)
SubscribedToInference(r) == InList(inferListeners, r)

IsCallback(e) == e.event \in {"onResolved", "onInvalidated"}

\* no listener callback of the running (or last) host call called back into the engine
NoReentry == \A i \in 1..Len(log) : IsCallback(log[i])

\* the callbacks of one kind the listeners of r got in this host call, in order
Callbacks(r, event) == SelectSeq(log, LAMBDA e : e.event = event /\ e.ref = r)

\* the callbacks a pass over the listener array ls delivers, with argument t
PassOver(ls, event, r, t) == [i \in 1..Len(ls) |-> LogCallback(ls[i], event, r, t)]

C2_RemovalInvalidates ==
    \A r \in Refs :
        LET t == cur.call.type
        IN (/\ Idle
            /\ cur.call.op = "removeNode"
            /\ cur.pre.graph[Identifier(t)] = t
            /\ IsConstructed(r)
            /\ cur.pre.res[r] = t
            /\ NoReentry) =>
               /\ Callbacks(r, "onInvalidated")
                      = PassOver(cur.pre.lis[r], "onInvalidated", r, t)
               /\ resolvedType[r] = tryToResolve(World, selector[r])

\* C3: a TypeReference to an identifier that is not in the graph is left Unresolved
\* by its constructor and nobody is notified; the addNode of a Type with that
\* identifier resolves it to that Type and calls onResolved once per registered
\* listener; a Resolved reference calls no onResolved on later add events.
C3_ResolvedOnAdd ==
    \A r \in Refs :
        /\ (/\ cur.call.op = "construct"
            /\ cur.call.ref = r
            /\ cur.call.sel.kind = "id"
            /\ cur.pre.graph[cur.call.sel.id] = Undefined) =>
               /\ Idle
               /\ resolvedType[r] = Undefined
               /\ log = <<>>
        /\ (/\ Idle
            /\ cur.call.op = "addNode"
            /\ cur.pre.graph[Identifier(cur.call.type)] = Undefined
            /\ selector[r] = SelId(Identifier(cur.call.type))
            /\ cur.pre.res[r] = Undefined
            /\ ~deconstructed[r]
            /\ NoReentry) =>
               /\ resolvedType[r] = cur.call.type
               /\ Callbacks(r, "onResolved")
                      = PassOver(cur.pre.lis[r], "onResolved", r, cur.call.type)
               /\ Callbacks(r, "onInvalidated") = <<>>
        /\ (/\ Idle
            /\ cur.call.op \in {"addedType", "addedInferenceRule", "addNode",
                                "addInferenceRule"}
            /\ IsConstructed(r)
            /\ cur.pre.res[r] # Undefined
            /\ NoReentry) =>
               /\ resolvedType[r] = cur.pre.res[r]
               /\ Callbacks(r, "onResolved") = <<>>

\* an addNode that resolved the reference and called its two listeners
C3_Witness ==
    /\ Idle
    /\ cur.call.op = "addNode"
    /\ selector[1] = SelId("a")
    /\ cur.pre.res[1] = Undefined
    /\ resolvedType[1] = cur.call.type
    /\ Len(cur.pre.lis[1]) = 2
    /\ Len(log) = 2

\* C4: removedType(t) on a reference that holds t ends with the slot cleared, the
\* reference subscribed to both collaborators again and the resolution tried again
\* (so it holds what its selector finds now, and is subscribed when that is
\* nothing); and an Unresolved reference is resolved, its listeners called, by the
\* next addNode or addInferenceRule after which its selector finds a Type (unless
\* deconstruct() was called on it).
C4_InvalidationNotTerminal ==
    \A r \in Refs :
        /\ (/\ Idle
            /\ cur.call.op = "removedType"
            /\ cur.call.ref = r
            /\ cur.pre.res[r] = cur.call.type
            /\ NoReentry) =>
               /\ resolvedType[r] = tryToResolve(World, selector[r])
               /\ resolvedType[r] = Undefined =>
                      SubscribedToGraph(r) /\ SubscribedToInference(r)
               /\ Callbacks(r, "onInvalidated")
                      = PassOver(cur.pre.lis[r], "onInvalidated", r, cur.call.type)
        /\ (/\ Idle
            /\ cur.call.op \in {"addNode", "addInferenceRule"}
            /\ IsConstructed(r)
            /\ cur.pre.res[r] = Undefined
            /\ ~deconstructed[r]
            /\ tryToResolve(World, selector[r]) # Undefined
            /\ NoReentry) =>
               /\ resolvedType[r] = tryToResolve(World, selector[r])
               /\ Callbacks(r, "onResolved")
                      = PassOver(cur.pre.lis[r], "onResolved", r, resolvedType[r])

\* a removedType that left the reference Unresolved and subscribed, its listener told
C4_Witness ==
    /\ Idle
    /\ cur.call.op = "removedType"
    /\ cur.call.ref = 1
    /\ cur.pre.res[1] = cur.call.type
    /\ resolvedType[1] = Undefined
    /\ SubscribedToGraph(1)
    /\ SubscribedToInference(1)
    /\ Len(log) = 1
    /\ NoReentry

\* C5: resolveTypeSelector returns a Type or throws, and never returns undefined,
\* whatever the selector and the state of graph, inference and references.
C5_NeverAbsent ==
    (cur.call.op = "resolveTypeSelector" /\ cur.ret.tag = "return") =>
        isType(cur.ret.value)

C7_TopPassFresh ==
    (stack # <<>> /\ Head(stack).kind \in {"onResolved", "onInvalidated"}
        /\ Head(stack).idx = 1) =>
            Head(stack).all = listeners[Head(stack).ref]

C7_PassStep ==
    (stack # <<>> /\ Head(stack).kind \in {"onResolved", "onInvalidated"}
        /\ Head(stack).idx <= Len(Head(stack).all)) =>
            LET f == Head(stack)
                below == Len(stack) - 1
            IN /\ Len(log') > Len(log)
               /\ IsCallback(log'[Len(log) + 1])
               /\ log'[Len(log) + 1].listener = f.all[f.idx]
               /\ log'[Len(log) + 1].ref = f.ref
               /\ log'[Len(log) + 1].event = f.kind
               /\ Len(stack') >= below
               /\ SubSeq(stack', Len(stack') - below + 1, Len(stack')) = Tail(stack)
               /\ (f.idx < Len(f.all) \/ f.kind = "onInvalidated") =>
                      /\ Len(stack') > below
                      /\ stack'[Len(stack') - below] = [f EXCEPT !.idx = @ + 1]

C7_SnapshotPass == [][C7_TopPassFresh' /\ C7_PassStep]_vars

\* a finished onInvalidated pass over one listener, whose callback registered a
\* second listener that the pass did not call
C7_Witness ==
    /\ Idle
    /\ cur.call.op = "removedType"
    /\ cur.pre.lis[1] = <<1>>
    /\ Len(log) = 2
    /\ log[1] = LogCallback(1, "onInvalidated", 1, cur.call.type)
    /\ log[2].event = "addListener"
    /\ listeners[1] = <<1, 2>>
    /\ resolvedType[1] = Undefined

\* C8: addListener(l, inform) appends l to the listeners; with inform it calls l,
\* and only l, once before anything else: onResolved with the Type held, or
\* onInvalidated with undefined when the slot is empty; without inform it calls
\* nobody.
C8_AddListener ==
    LET r == cur.call.ref
        l == cur.call.listener
        held == cur.pre.res[r]
        told == IF held # Undefined
                THEN LogCallback(l, "onResolved", r, held)
                ELSE LogCallback(l, "onInvalidated", r, Undefined)
    IN (Idle /\ cur.call.op = "addListener") =>
           /\ cur.call.inform =>
                  /\ Len(log) >= 1
                  /\ log[1] = told
                  /\ NoReentry => log = <<told>>
           /\ ~cur.call.inform => log = <<>>
           /\ NoReentry =>
                  /\ listeners[r] = Append(cur.pre.lis[r], l)
                  /\ resolvedType[r] = held

\* a listener added to a Resolved reference and told so, beside an older listener
C8_Witness ==
    /\ Idle
    /\ cur.call.op = "addListener"
    /\ cur.call.inform
    /\ cur.pre.res[1] # Undefined
    /\ Len(listeners[1]) = 2
    /\ listeners[1][1] # cur.call.listener
    /\ log = <<LogCallback(cur.call.listener, "onResolved", 1, resolvedType[1])>>

\* C9: resolveTypeSelector throws, naming the identifier, for an identifier that is
\* not in the graph (given as such or returned by a selector function), and throws,
\* naming the printed domain element, for a domain element the inference finds no
\* Type for; and the call changes nothing of graph, inference or references.
C9_Step ==
    LET sel == cur'.call.sel
    IN cur'.call.op = "resolveTypeSelector" =>
           /\ (sel.kind = "id" /\ graph[sel.id] = Undefined) =>
                  cur'.ret = ThrownNoSuchIdentifier(sel.id)
           /\ (sel.kind = "fn" /\ sel.fn \in {1, 2} /\ graph["a"] = Undefined) =>
                  cur'.ret = ThrownNoSuchIdentifier("a")
           /\ (sel.kind = "value" /\ ~isType(InferType(World, sel.value))) =>
                  cur'.ret = ThrownNotInferable(printDomainElement(sel.value))
           /\ stack' = <<>>
           /\ log' = <<>>
           /\ UNCHANGED <<graph, graphListeners, inferListeners, rules, selector,
                          resolvedType, listeners, deconstructed>>

C9_ThrowsOnMiss == [][C9_Step]_vars

\* the error for a domain element, thrown while a TypeReference waits for the same
\* inference and another Type is in the graph
C9_Witness ==
    /\ cur.call.op = "resolveTypeSelector"
    /\ cur.call.sel = SelValue(7)
    /\ cur.ret = ThrownNotInferable(printDomainElement(7))
    /\ selector[1] = SelValue(7)
    /\ graph["b"] # Undefined

\* C10: tryToResolve throws nothing: it returns undefined for an identifier that is
\* not in the graph, for an Unresolved TypeReference and for a domain element the
\* inference finds no Type for; and a TypeReference whose selector finds nothing
\* when it is constructed or told of an addition stays Unresolved, its listeners
\* not called.
C10_TryNeverThrows ==
    /\ LET sel == cur.call.sel
       IN cur.call.op = "tryToResolve" =>
              /\ cur.ret.tag = "return"
              /\ cur.ret.value \in Types \cup {Undefined}
              /\ (sel.kind = "id" /\ graph[sel.id] = Undefined) => cur.ret.value = Undefined
              /\ (sel.kind = "ref" /\ resolvedType[sel.ref] = Undefined) =>
                     cur.ret.value = Undefined
              /\ (sel.kind = "value" /\ ~isType(InferType(World, sel.value))) =>
                     cur.ret.value = Undefined
    /\ \A r \in Refs :
          (/\ Idle
           /\ cur.call.op \in {"construct", "addNode", "addInferenceRule"}
           /\ IsConstructed(r)
           /\ cur.pre.res[r] = Undefined
           /\ tryToResolve(World, selector[r]) = Undefined) =>
              /\ resolvedType[r] = Undefined
              /\ Callbacks(r, "onResolved") = <<>>
              /\ Callbacks(r, "onInvalidated") = <<>>

\* tryToResolve on a TypeReference that is Unresolved because inference finds nothing
C10_Witness ==
    /\ cur.call.op = "tryToResolve"
    /\ cur.call.sel = SelRef(1)
    /\ selector[1] = SelValue(7)
    /\ listeners[1] # <<>>
    /\ cur.ret = Returned(Undefined)


\* ------------------------------------------- validation constraints ---
\* the Type one side of a check stands for: itself when it is a Type, what the
\* inference makes of it otherwise
SideType(node) == IF isType(node) THEN node ELSE InferType(World, node)

\* both sides of the check are there and each is a Type or inferred to one
BothSidesTypes(c) ==
    /\ c.domainNode # Undefined
    /\ c.expected # Undefined
    /\ isType(SideType(c.domainNode))
    /\ isType(SideType(c.expected))

\* what the strategy of the check says about its two sides
Mismatch(c) ==
    createTypeCheckStrategy(c.strategy, SideType(c.domainNode), SideType(c.expected))

\* a constraint has just been called
Checks == checked' # checked

C11_Step ==
    Checks =>
        LET c == checked'.call
            ret == checked'.ret
        IN (BothSidesTypes(c) /\ isFunction(c.m)) =>
               /\ ret.tag = "return"
               /\ Len(ret.problems) <= 1
               /\ (~c.negated /\ Mismatch(c) # Undefined) =>
                      /\ Len(ret.problems) = 1
                      /\ ret.problems[1].subProblems = <<Mismatch(c)>>
               /\ (~c.negated /\ Mismatch(c) = Undefined) => ret.problems = <<>>
               /\ (c.negated /\ Mismatch(c) = Undefined) =>
                      /\ Len(ret.problems) = 1
                      /\ ret.problems[1].subProblems = <<>>
               /\ (c.negated /\ Mismatch(c) # Undefined) => ret.problems = <<>>

\* C11: a check whose two sides both are Types or are inferred to Types, called
\* with a message provider, returns at most one problem: not negated and a
\* mismatch, one problem whose sub-problems are exactly the mismatch of the
\* strategy; not negated and no mismatch, none; negated and no mismatch, one
\* problem without sub-problems; negated and a mismatch, none.
C11_FourOutcomes == [][C11_Step]_vars

\* a not negated check of the domain value, inferred to Type 2, against Type 1
\* has returned one problem that holds the mismatch
C11_Witness ==
    /\ checked.call.entry = "ensureNodeRelatedWithType"
    /\ checked.call.domainNode = 7
    /\ checked.call.expected = 1
    /\ ~checked.call.negated
    /\ Len(checked.ret.problems) = 1
    /\ checked.ret.problems[1].subProblems = <<TypeConflict(2, 1)>>

C12_Step ==
    Checks =>
        LET c == checked'.call
        IN ~BothSidesTypes(c) => checked'.ret = Problems(<<>>)

\* C12: each of the four checks returns the empty list, and throws nothing, when
\* the domain node or the expected side is undefined or when one of the two
\* neither is a Type nor is inferred to one, for both strategies, both values
\* of negated and whatever is handed over as message.
C12_SilentSkip == [][C12_Step]_vars

\* ensureNodeHasNotType of a domain value against the same domain value, with a
\* provider, returned nothing: the value was not inferred to a Type (had it
\* been, the two equal Types would have been reported)
C12_Witness ==
    /\ checked.call.entry = "ensureNodeHasNotType"
    /\ checked.call.domainNode = 7
    /\ checked.call.expected = 7
    /\ checked.call.m = "full"
    /\ checked.ret = Problems(<<>>)

\* the generic check with the parameters of the call just made
Generic(c, strategy, negated) ==
    ensureNodeRelatedWithType(World, c.domainNode, c.expected, strategy, negated, c.m)

\* the value of the call just made is there and is inferred to (or is) the Type
\* handed over as the other side
InfersTo(c) ==
    /\ c.domainNode # Undefined
    /\ isType(c.expected)
    /\ SideType(c.domainNode) = c.expected

C13_Step ==
    Checks =>
        LET c == checked'.call
            ret == checked'.ret
        IN /\ c.entry = "ensureNodeIsAssignable" =>
                  /\ ret = Generic(c, "ASSIGNABLE_TYPE", FALSE)
                  /\ InfersTo(c) => ret = Problems(<<>>)
                  /\ (/\ BothSidesTypes(c)
                      /\ isFunction(c.m)
                      /\ createTypeCheckStrategy("ASSIGNABLE_TYPE", SideType(c.domainNode),
                                                 SideType(c.expected)) # Undefined) =>
                         /\ Len(ret.problems) = 1
                         /\ ret.problems[1].subProblems # <<>>
           /\ c.entry = "ensureNodeIsEquals" => ret = Generic(c, "EQUAL_TYPE", FALSE)
           /\ c.entry = "ensureNodeHasNotType" =>
                  /\ ret = Generic(c, "EQUAL_TYPE", TRUE)
                  /\ (InfersTo(c) /\ isFunction(c.m)) =>
                         /\ Len(ret.problems) = 1
                         /\ ret.problems[1].subProblems = <<>>
                  /\ (isType(c.expected) /\ ~InfersTo(c)) => ret = Problems(<<>>)

\* C13: ensureNodeIsAssignable, ensureNodeIsEquals and ensureNodeHasNotType return
\* what the generic check returns for (ASSIGNABLE_TYPE, not negated),
\* (EQUAL_TYPE, not negated) and (EQUAL_TYPE, negated), for all inputs; so
\* ensureNodeIsAssignable returns nothing when the value is inferred to the
\* expected Type and one problem with sub-problems on a mismatch, and
\* ensureNodeHasNotType returns one problem without sub-problems when the value is
\* inferred to the forbidden Type and nothing otherwise.
C13_NamedChecks == [][C13_Step]_vars

\* ensureNodeHasNotType of the domain value, inferred to Type 2, against Type 2
\* has returned one problem without sub-problems
C13_Witness ==
    /\ checked.call.entry = "ensureNodeHasNotType"
    /\ checked.call.domainNode = 7
    /\ checked.call.expected = 2
    /\ Len(checked.ret.problems) = 1
    /\ checked.ret.problems[1].subProblems = <<>>

\* the check just made is one that reports: both sides are Types and the strategy
\* finds a mismatch exactly when the check is not negated
Emits(c) == BothSidesTypes(c) /\ (c.negated <=> Mismatch(c) = Undefined)

C14_Step ==
    Checks =>
        LET c == checked'.call
            ret == checked'.ret
            actualType == SideType(c.domainNode)
            expectedType == SideType(c.expected)
            details == ValidationMessageDetails(c.m, annotateType(actualType),
                                                annotateType(expectedType))
        IN Emits(c) =>
               /\ ret.tag = "return"
               /\ Len(ret.problems) = 1
               /\ ret.problems[1].domainElement = OrElse(details.domainElement, c.domainNode)
               /\ ret.problems[1].domainProperty = details.domainProperty
               /\ ret.problems[1].domainIndex = details.domainIndex
               /\ ret.problems[1].severity = OrElse(details.severity, "error")
               /\ ret.problems[1].message =
                      OrElse(details.message,
                             DefaultMessage(actualType, expectedType, c.strategy, c.negated))

\* C14: a check that reports returns one problem whose fields are those the
\* message provider sets and, for the fields it leaves out or when no provider
\* is handed over, the domain node of the call, the severity error and the
\* message made of the two identifiers and the strategy; it does not throw for
\* want of a provider or of a field.
C14_DefaultedFields == [][C14_Step]_vars

\* --------------------------------------------- validation collector ---
\* what the rules of a list return for one domain element, one after the other
RECURSIVE Outputs(_, _, _)
Outputs(list, w, domainElement) ==
    IF list = <<>> THEN <<>>
    ELSE RuleProblems(Head(list), w, domainElement) \o Outputs(Tail(list), w, domainElement)

\* validate returns in this step
PassEnds ==
    /\ validating' # validating
    /\ validating' # NotValidating
    /\ ~validating'.active

Registering(list) == \E i \in 1..Len(list) : RuleRegisters(list[i]) # <<>>

C15_Step ==
    PassEnds =>
        /\ validating'.ran = validationRules'
        /\ ~Registering(validating'.start) => validating'.ran = validating'.start
        /\ validating'.problems =
               Outputs(validationRules', World, validating'.domainElement)
        /\ validating'.start = <<>> => validating'.problems = <<>>

\* C15: when validate returns, every rule of the list has run once, in the order
\* of the list and on the domain element of the call (the rules registered
\* before the call, when none of them registers a rule while it runs), and the
\* result is what the rules returned, one after the other in that order; with no
\* rule registered the result is the empty list.
C15_Concatenation == [][C15_Step]_vars

\* validate(Type 2) with the rules 2 and 1 has returned the two problems of
\* rule 2 followed by the problem of rule 1
C15_Witness ==
    /\ ~validating.active
    /\ validating.ran = <<2, 1>>
    /\ validating.domainElement = 2
    /\ Len(validating.problems) = 3
    /\ validating.problems[1].severity = "warning"
    /\ validating.problems[3].message = DefaultMessage(2, 1, "ASSIGNABLE_TYPE", FALSE)

Occurrences(s, x) == Cardinality({i \in 1..Len(s) : s[i] = x})

C16_Step ==
    /\ validationRules' = registered'
    /\ Len(validationRules') >= Len(validationRules)
    /\ SubSeq(validationRules', 1, Len(validationRules)) = validationRules
    /\ (~validating.active /\ validating' # validating /\ validating' # NotValidating) =>
           validationRules' = validationRules
    /\ validating.active =>
           validationRules' =
               validationRules \o RuleRegisters(validationRules[validating.idx])
    /\ PassEnds =>
           \A rule \in RuleIds :
               Occurrences(validating'.ran, rule) = Occurrences(registered', rule)

\* C16: the rule list is what has been handed to addValidationRules so far, in
\* the order of the calls and of their arguments and with every duplicate; no
\* entry is ever removed or moved; validate assigns nothing to the list (it
\* grows during a pass only by what a running rule registers); and a rule runs
\* in a pass as often as it is registered.
C16_AppendOnly == [][C16_Step]_vars

\* rule 1, registered twice, has run twice in one pass and reported twice
C16_Witness ==
    /\ registered = <<1, 1>>
    /\ validationRules = <<1, 1>>
    /\ ~validating.active
    /\ validating.ran = <<1, 1>>
    /\ Len(validating.problems) = 2

\* ------------------------------------------------ listeners, no-ops ---
\* the listeners the host call called with one event of reference r, in the
\* order of the calls
Called(r, event) ==
    [i \in 1..Len(Callbacks(r, event)) |-> Callbacks(r, event)[i].listener]

\* the calls are whole runs through the list, first entry to last, one run after
\* the other
WholePasses(called, list) ==
    IF list = <<>>
    THEN called = <<>>
    ELSE /\ Len(called) % Len(list) = 0
         /\ \A i \in 1..Len(called) : called[i] = list[((i - 1) % Len(list)) + 1]

\* C17: a notification pass calls the listeners of the reference in the order in
\* which addListener put them into the list, and a listener that is in the list
\* k times is called k times: once a host call other than addListener has
\* returned and no callback has called back into the engine, the listeners
\* called with an event are the list as it was, entry by entry, once for each
\* pass the call has led to, and addListener puts the new listener at the end of
\* the list.
C17_RegistrationOrder ==
    \A r \in Refs :
        (Idle /\ NoReentry /\ IsConstructed(r)) =>
            /\ cur.call.op # "addListener" =>
                   \A event \in {"onResolved", "onInvalidated"} :
                       WholePasses(Called(r, event), cur.pre.lis[r])
            /\ (cur.call.op = "addListener" /\ cur.call.ref = r) =>
                   listeners[r] = Append(cur.pre.lis[r], cur.call.listener)

\* listener 2 was registered before listener 1, and the pass that followed the
\* resolution called 2 before 1
C17_Witness ==
    /\ Idle
    /\ NoReentry
    /\ cur.call.op # "addListener"
    /\ cur.pre.lis[1] = <<2, 1>>
    /\ Called(1, "onResolved") = <<2, 1>>

\* the host delivers, in this step, a notification the reference has no use
\* for: a removedType of a Type other than the one it holds, addedEdge,
\* removedEdge or removedInferenceRule
Irrelevant ==
    /\ Idle
    /\ cur'.call.op \in {"removedType", "addedEdge", "removedEdge", "removedInferenceRule"}
    /\ cur'.call.op = "removedType" => cur'.call.type # resolvedType[cur'.call.ref]

C18_Step ==
    Irrelevant =>
        /\ UNCHANGED <<resolvedType, graphListeners, inferListeners, listeners, selector,
                       deconstructed, graph, rules>>
        /\ stack' = <<>>
        /\ log' = <<>>

\* C18: a removedType of a Type that is not the one the reference holds (so every
\* removedType while it holds none), an addedEdge, a removedEdge and a
\* removedInferenceRule leave the reference as it was, its Type, its two
\* subscriptions and its listener list, and call no listener.
C18_NoOps == [][C18_Step]_vars

\* a Resolved reference with a listener was told that another Type was removed
C18_Witness ==
    /\ Idle
    /\ cur.call.op = "removedType"
    /\ resolvedType[1] # Undefined
    /\ cur.call.type # resolvedType[1]
    /\ cur.pre.res[1] = resolvedType[1]
    /\ listeners[1] # <<>>
    /\ log = <<>>

\* the host calls deconstruct in this step
Deconstructs == Idle /\ cur'.call.op = "deconstruct"

C19_Step ==
    Deconstructs =>
        LET r == cur'.call.ref
        IN /\ ~InList(graphListeners', r)
           /\ ~InList(inferListeners', r)
           /\ listeners'[r] = <<>>
           /\ deconstruct(World', r) = World'

\* C19: deconstruct leaves the reference subscribed to neither the graph nor the
\* inference collector, whatever it held and whatever it was subscribed to, and
\* leaves its listener list empty; and a second deconstruct changes nothing
\* more, also for a reference that holds a Type.
C19_Deconstruct == [][C19_Step]_vars

\* the host calls removeListener in this step
Removes == Idle /\ cur'.call.op = "removeListener"

C20_Step ==
    Removes =>
        LET r == cur'.call.ref
            l == cur'.call.listener
            old == listeners[r]
        IN /\ ~InList(old, l) => listeners'[r] = old
           /\ InList(old, l) =>
                  \E i \in 1..Len(old) :
                      /\ old[i] = l
                      /\ \A j \in 1..(i - 1) : old[j] # l
                      /\ listeners'[r] = SubSeq(old, 1, i - 1) \o SubSeq(old, i + 1, Len(old))
           /\ UNCHANGED <<resolvedType, graphListeners, inferListeners, selector,
                          deconstructed, graph, rules>>
           /\ stack' = <<>>
           /\ log' = <<>>

\* C20: removeListener takes the first entry identical to the listener out of the
\* listener list and leaves the other entries, later entries of the same
\* listener among them, in their order; for a listener that is not in the list
\* it changes nothing; and nothing else of the reference changes.
C20_RemoveFirst == [][C20_Step]_vars

\* listener 1, registered twice, has been removed once and is still registered
C20_Witness ==
    /\ Idle
    /\ cur.call.op = "removeListener"
    /\ cur.call.listener = 1
    /\ cur.pre.lis[1] = <<1, 1>>
    /\ listeners[1] = <<1>>

\* ------------------------------------------------ selector resolution ---
\* the host calls tryToResolve or resolveTypeSelector in this step
Selects == cur'.call.op \in {"tryToResolve", "resolveTypeSelector"}

C21_Step ==
    (Selects /\ cur'.call.sel.kind = "type") =>
        /\ cur'.ret = Returned(cur'.call.sel.type)
        /\ stack' = <<>>
        /\ log' = <<>>
        /\ UNCHANGED <<graph, graphListeners, inferListeners, rules, selector,
                       resolvedType, listeners, deconstructed>>

\* C21: for a selector that is a Type, tryToResolve and resolveTypeSelector both
\* return that very Type, whether it is in the graph or not, and the call leaves
\* the graph, the inference rules, the subscriptions and every TypeReference as
\* they were and calls no listener.
C21_TypeSelector == [][C21_Step]_vars

\* tryToResolve returned Type 2, which is not in the graph, while a TypeReference
\* is subscribed
C21_Witness ==
    /\ cur.call.op = "tryToResolve"
    /\ cur.call.sel = SelType(2)
    /\ cur.ret = Returned(2)
    /\ graph["b"] = Undefined
    /\ graphListeners # <<>>

\* the selector a selector leads to once the selector functions have been called
RECURSIVE LeadsTo(_)
LeadsTo(sel) == IF sel.kind = "fn" THEN LeadsTo(FnReturns(sel.fn)) ELSE sel

C22_Step ==
    (Selects /\ LeadsTo(cur'.call.sel).kind = "init") =>
        LET i == LeadsTo(cur'.call.sel).init
        IN /\ cur'.call.op = "tryToResolve" => cur'.ret = Returned(getTypeInitial(i))
           /\ cur'.call.op = "resolveTypeSelector" => cur'.ret = Returned(getTypeFinal(i))

\* C22: for a TypeInitializer as selector, given as such or returned by a
\* selector function, tryToResolve returns the initializer's initial Type and
\* resolveTypeSelector its final Type.
C22_InitialAndFinal == [][C22_Step]_vars

\* resolveTypeSelector of a function that returns the TypeInitializer has
\* returned the final Type, which is not the initial one
C22_Witness ==
    /\ cur.call.op = "resolveTypeSelector"
    /\ cur.call.sel = SelFn(3)
    /\ cur.ret = Returned(getTypeFinal(1))
    /\ getTypeFinal(1) # getTypeInitial(1)

\* -------------------------------------------------------- termination ---
\* the calls into a TypeReference, the graph and the inference collector are
\* synchronous: a pass in progress goes on, and a callback calls back into the
\* engine at most MaxNested times in a run
SpecLive ==
    /\ Spec
    /\ WF_vars(DeliverCallback)
    /\ WF_vars(FinishRemovedType)
    /\ WF_vars(DeliverAddedType)
    /\ WF_vars(DeliverRemovedType)
    /\ WF_vars(DeliverAddedInferenceRule)

\* under SpecLive every call of the host returns: construct, addedType,
\* addedInferenceRule, removedType, addListener, removeListener, deconstruct and
\* the additions and removals of graph and inference collector
CallsReturn == (stack # <<>>) ~> (stack = <<>>)

\* a run of the rule that registers itself leaves the loop of validate as far
\* from its end as it was
SelfRegisteringRecurs ==
    [][(validating.active /\ validationRules[validating.idx] = SelfRegistering) =>
           /\ validating'.active
           /\ Len(validationRules') - validating'.idx =
                  Len(validationRules) - validating.idx
           /\ validationRules'[Len(validationRules')] = SelfRegistering]_vars

Reference == <<resolvedType, graphListeners, inferListeners, listeners, selector, deconstructed>>

\* the host tells a reference that holds a Type of an addition
ToldByHost ==
    /\ Idle
    /\ cur'.call.op \in {"addedType", "addedInferenceRule"}
    /\ resolvedType[cur'.call.ref] # Undefined

\* the graph or the inference collector tells a reference that holds a Type
ToldByService ==
    /\ stack # <<>>
    /\ Head(stack).kind \in {"addedType", "addedInferenceRule"}
    /\ resolvedType[Head(Pending(World, Head(stack)))] # Undefined

\* a listener callback, called in this step, calls addedType on a reference that
\* holds a Type before it returns
ToldByCallback ==
    /\ stack # <<>>
    /\ Head(stack).kind \in CallbackKinds
    /\ Len(log') = Len(log) + 2
    /\ log'[Len(log')].event = "addedType"
    /\ resolvedType[log'[Len(log')].ref] # Undefined

C24_Step ==
    /\ ToldByHost => (UNCHANGED Reference /\ stack' = <<>> /\ log' = <<>>)
    /\ ToldByService =>
           (UNCHANGED Reference /\ stack' = Advance(World).stack /\ log' = log)
    /\ ToldByCallback => (UNCHANGED Reference /\ stack' = Advance(World).stack)

\* C24: addedType and addedInferenceRule on a reference that holds a Type change
\* nothing: the Type stays, also when the selector finds another Type now, no
\* listener is called and no subscription is added or removed, whether the
\* host, the graph or the inference collector makes the call or a listener
\* makes it from inside a notification pass of the reference.
C24_ResolvedIgnoresAdditions == [][C24_Step]_vars

\* a reference that holds Type 1 and has a listener was told of an added
\* inference rule while its selector finds Type 2: nothing happened
C24_Witness ==
    /\ Idle
    /\ cur.call.op = "addedInferenceRule"
    /\ cur.pre.res[1] = 1
    /\ resolvedType[1] = 1
    /\ tryToResolve(World, selector[1]) = 2
    /\ listeners[1] # <<>>
    /\ log = <<>>

\* ------------------------------------------------------ subscriptions ---
\* C25: a TypeReference is never more than once in the listener array of the
\* graph and never more than once in that of the inference collector.
C25_AtMostOneSubscription ==
    \A r \in Refs :
        /\ Occurrences(graphListeners, r) <= 1
        /\ Occurrences(inferListeners, r) <= 1

\* -------------------------------------------------- chained references ---
\* TypeReference.getType
getType(r) == resolvedType[r]

\* A reference whose selector is another TypeReference, with that reference.
Chained(r, s) ==
    /\ IsConstructed(r)
    /\ IsConstructed(s)
    /\ selector[r] = SelRef(s)
    /\ ~deconstructed[r]
    /\ ~deconstructed[s]

\* C26: whenever no notification is in progress, a reference R whose selector
\* is the reference S holds what S holds: R.getType() = S.getType().
C26_ChainedAgree ==
    \A r, s \in Refs : (Idle /\ Chained(r, s)) => getType(r) = getType(s)

C26_Witness ==
    /\ Idle
    /\ Chained(2, 1)
    /\ cur.call.op = "addNode"
    /\ cur.pre.res[1] = Undefined
    /\ cur.pre.res[2] = Undefined
    /\ getType(1) = cur.call.type
    /\ getType(2) = cur.call.type

\* ------------------------------------- what a callback can observe ---
\* a step in which a listener of the pass on top of the stack is called
Delivering ==
    /\ stack # <<>>
    /\ Head(stack).kind \in {"onResolved", "onInvalidated"}
    /\ Len(log') > Len(log)

\* the forEach frames counted from the outermost one
FromBottom(st, i) == st[Len(st) - i + 1]

\* a pass with a listener still to call
Open(f) == Pending(World, f) # <<>>

\* C27: a listener called by an onResolved pass finds the delivered Type in the
\* slot and the reference unsubscribed; as long as an onInvalidated pass has a
\* listener left to call, the slot keeps the removed Type and the reference stays
\* unsubscribed, and each listener of the pass is handed that Type.
C27_Step ==
    /\ Delivering =>
           LET top == Head(stack)
               r == top.ref
               arg == log'[Len(log) + 1].type
           IN /\ top.kind = "onResolved" =>
                     /\ getType(r) = top.arg
                     /\ arg = top.arg
                     /\ ~SubscribedToGraph(r)
                     /\ ~SubscribedToInference(r)
              /\ top.kind = "onInvalidated" =>
                     /\ isType(arg)
                     /\ arg = getType(r)
    /\ \A i \in 1..Len(stack') :
           LET f == FromBottom(stack', i)
           IN (f.kind = "onInvalidated" /\ Open(f)) =>
                 /\ isType(resolvedType'[f.ref])
                 /\ resolvedType'[f.ref] = resolvedType[f.ref]
                 /\ ~InList(graphListeners', f.ref)
                 /\ ~InList(inferListeners', f.ref)

C27_WithoutReentry == [][nested' = 0 => C27_Step]_vars

\* ------------------------------------ the two selections compared ---
\* C28: for a selector that does not lead to a TypeInitializer, a Type returned
\* by resolveTypeSelector is what tryToResolve returns in the same state, and a
\* Type returned by tryToResolve is returned, not thrown, by resolveTypeSelector.
C28_Step ==
    (Selects /\ LeadsTo(cur'.call.sel).kind # "init") =>
        LET sel == cur'.call.sel
        IN /\ (/\ cur'.call.op = "resolveTypeSelector"
                /\ cur'.ret.tag = "return"
                /\ isType(cur'.ret.value)) =>
                   tryToResolve(World, sel) = cur'.ret.value
           /\ (/\ cur'.call.op = "tryToResolve"
                /\ isType(cur'.ret.value)) =>
                   resolveTypeSelector(World, sel) = Returned(cur'.ret.value)

C28_SelectionsAgree == [][C28_Step]_vars

\* resolveTypeSelector returned, through two functions, the Type that
\* tryToResolve finds for the same selector
C28_Witness ==
    /\ cur.call.op = "resolveTypeSelector"
    /\ cur.call.sel = SelFn(2)
    /\ cur.ret = Returned(1)
    /\ tryToResolve(World, cur.call.sel) = 1

\* ------------------------------------ rules registered during a pass ---
\* the rules that the rules of a list hand to addValidationRules when they run
RECURSIVE RegisteredBy(_)
RegisteredBy(list) ==
    IF list = <<>> THEN <<>>
    ELSE RuleRegisters(Head(list)) \o RegisteredBy(Tail(list))

\* a rule that registers a rule is running in this step
RuleRegistersNow ==
    /\ validating.active
    /\ validating' # validating
    /\ RuleRegisters(validationRules[validating.idx]) # <<>>

\* C29: a rule that a running rule registers during validate is put at the end of
\* the array the loop is iterating, so the loop goes on; when validate returns,
\* the rules registered during the pass have run in it, after the rules the pass
\* began with, and their problems follow those of the rules the pass began with.
C29_Step ==
    /\ RuleRegistersNow =>
           /\ validating'.active
           /\ validationRules'
                  = validationRules \o RuleRegisters(validationRules[validating.idx])
    /\ PassEnds =>
           LET start == validating'.start
               during == RegisteredBy(validating'.ran)
           IN /\ validating'.ran = start \o during
              /\ validating'.problems
                     = Outputs(start, World, validating'.domainElement)
                           \o Outputs(during, World, validating'.domainElement)

C29_LiveIteration == [][C29_Step]_vars

\* validate(Type 2) began with rule 3 alone; rule 3 registered rule 1, which ran
\* in the same pass and whose problem is the result
C29_Witness ==
    /\ ~validating.active
    /\ validating.start = <<3>>
    /\ validating.ran = <<3, 1>>
    /\ validating.domainElement = 2
    /\ validating.problems = RuleProblems(1, World, 2)
    /\ Len(validating.problems) = 1

============================================================================
